---- MODULE Spec2Model ----
(***************************************************************************)
(* Model of src/api/discord/interactions.js: the interaction callbacks     *)
(* (reply, defer, component_defer, component_update, autocomplete_reply,   *)
(* modal_reply, upgrade, edit_original, get_original), the followups       *)
(* (create, edit), the multipart attachment dispatcher sendAttachment and  *)
(* the callback helper handleCallbacks.  A call may be repeated with the   *)
(* same input object, and the stored message may be edited by somebody     *)
(* else while an edit is under way.                                        *)
(*                                                                         *)
(* A JavaScript object is a function whose DOMAIN is the set of keys it    *)
(* has; an array is a sequence.  The value of an optional read (o?.k,      *)
(* a?.[0]) is a sequence of length 0 (undefined) or 1 (the value).  A      *)
(* request body is held as JSON.stringify leaves it: a key whose value is  *)
(* undefined is not in the object.                                         *)
(***************************************************************************)
EXTENDS Integers, Sequences, FiniteSets, TLC

VARIABLES
    op,       \* the public operation being called
    input,    \* the caller's input object (the handlers write to it in place)
    input0,   \* the input object as the caller passed it (history)
    stored,   \* the message held by the provider
    message,  \* what the GET of an edit returned (undefined before)
    net,      \* the network requests issued so far, in order
    pc,       \* position of the call: the await it is suspended on
    result,   \* what the call returned or threw (undefined while running)
    idx,      \* sendAttachment: index of the attachment the first loop is at
    sa,       \* sendAttachment: its arguments (sender, url, method, type, flags)
    resp,     \* how the requests of net that completed were answered (history)
    ext,      \* the edits others made to the stored message during the call (history)
    past      \* the earlier calls made with the same input object (history)

vars == <<op, input, input0, stored, message, net, pc, result, idx, sa, resp, ext, past>>

(***************************************************************************)
(* Bounds of the model.                                                    *)
(***************************************************************************)
MaxAttachments == 2
MaxEmbeds == 2
MaxExternalEdits == 1
MaxCalls == 2

(***************************************************************************)
(* JavaScript values.                                                      *)
(***************************************************************************)
Undef == <<>>
Some(v) == <<v>>
EmptyObj == <<>>
NullV == "null"

\* o.k, read as an optional value
Get(o, k) == IF k \in DOMAIN o THEN <<o[k]>> ELSE Undef

\* m?.k
Chain(m, k) == IF m = Undef THEN Undef ELSE Get(m[1], k)

\* m?.[0]
Idx0(m) == IF m = Undef THEN Undef ELSE IF Len(m[1]) >= 1 THEN <<m[1][1]>> ELSE Undef

\* a ?? b (null is not among the values read through ??)
NC(a, b) == IF a = Undef THEN b ELSE a

\* truthiness of an optional string
Truthy(m) == m # Undef /\ m[1] # ""

\* { ...a, ...b }
Merge(a, b) == [k \in (DOMAIN a) \cup (DOMAIN b) |-> IF k \in DOMAIN b THEN b[k] ELSE a[k]]

\* the object without key k
Without(o, k) == [j \in (DOMAIN o) \ {k} |-> o[j]]

\* An object literal as JSON.stringify sends it: ps is a sequence of
\* <<key, optional value>>, and a key whose value is undefined is dropped.
Obj(ps) ==
    LET present == {i \in DOMAIN ps : ps[i][2] # Undef}
    IN [k \in {ps[i][1] : i \in present} |->
            (ps[CHOOSE i \in present : ps[i][1] = k][2])[1]]

(***************************************************************************)
(* Program constants.                                                      *)
(***************************************************************************)
EPHEMERAL == 64
TYPE_REPLY == 4
TYPE_COMPONENT_UPDATE == 7
NO_CONTENT == 204
TYPE_DEFER == 5
TYPE_COMPONENT_DEFER == 6
TYPE_AUTOCOMPLETE == 8
TYPE_MODAL == 9
TYPE_UPGRADE == 10
ZWSP == "u200b"

CallbackPath == "interactions/{id}/{token}/callback"
OriginalPath == "webhooks/{app}/{token}/messages/@original"
WebhookPath == "webhooks/{app}/{token}"
FollowupMessagePath == "webhooks/{app}/{token}/messages/{message_id}?"

Flags_zero(in) == 0

\* input.ephemeral ? (1 << 6) : 0
Flags(in) == IF Get(in, "ephemeral") = <<TRUE>> THEN EPHEMERAL ELSE 0

HasAttachments_keyPresent(in) == Get(in, "attachments") # Undef

\* input.attachments && input.attachments.length
HasAttachments(in) == Get(in, "attachments") # Undef /\ Len(in["attachments"]) > 0

(***************************************************************************)
(* callback.reply and callback.component_update: the input object itself,  *)
(* with input.flags overwritten, is the data of the typed envelope.        *)
(***************************************************************************)
WithFlags(in) == Merge(in, [flags |-> Flags(in)])

\* JSON.stringify({ type: 4, data: input })
ReplyBody(in) == [type |-> TYPE_REPLY, data |-> in]

\* handleCallbacks: JSON.stringify({ type: params.type, data: params.data })
CallbackBody(type, data) == [type |-> type, data |-> data]

\* the data of defer and component_defer: { flags: input.ephemeral ? (1 << 6) : 0 }
DeferData(in) == [flags |-> Flags(in)]

\* return_date: true, which only defer and component_defer pass to handleCallbacks
ReturnDate(o) == o \in {"defer", "component_defer"}

\* handleCallbacks: JSON.stringify({ type: params.type, data: params.data })
ComponentUpdateBody(in) == [type |-> TYPE_COMPONENT_UPDATE, data |-> in]

(***************************************************************************)
(* followup.create, JSON path.                                             *)
(***************************************************************************)
\* the two placeholder assignments of the loop over input.embeds
FixEmbed(embed) ==
    LET e1 == IF Truthy(Chain(Get(embed, "footer"), "icon_url"))
                 /\ ~Truthy(Chain(Get(embed, "footer"), "text"))
              THEN Merge(embed, [footer |-> Merge(embed["footer"], [text |-> ZWSP])])
              ELSE embed
    IN IF Truthy(Chain(Get(e1, "author"), "icon_url"))
          /\ ~Truthy(Chain(Get(e1, "author"), "name"))
       THEN Merge(e1, [author |-> Merge(e1["author"], [name |-> ZWSP])])
       ELSE e1

\* if (input.embeds?.length) for (const embed of input.embeds) ...
FixEmbeds(in) ==
    IF Get(in, "embeds") # Undef /\ Len(in["embeds"]) > 0
    THEN Merge(in, [embeds |-> [i \in DOMAIN in["embeds"] |-> FixEmbed(in["embeds"][i])]])
    ELSE in

\* x?.length ? x : []
NonEmptyOr(m) == IF m # Undef /\ Len(m[1]) > 0 THEN m ELSE Some(<<>>)

CreateBody_noDefaults(in) == Merge(in, [flags |-> Flags(in)])

\* the body literal of followup.create
CreateBody(in) ==
    Obj(<< <<"content", NC(Get(in, "content"), Some(""))>>,
           <<"embeds", NonEmptyOr(Get(in, "embeds"))>>,
           <<"components", NonEmptyOr(Get(in, "components"))>>,
           <<"tts", IF Get(in, "tts") = <<TRUE>> THEN Some(TRUE) ELSE Some(FALSE)>>,
           <<"allowed_mentions", NC(Get(in, "allowed_mentions"), Some(NullV))>>,
           <<"thread_name", NC(Get(in, "thread_name"), Some(NullV))>>,
           <<"flags", Some(Flags(in))>>,
           <<"attachments", NC(Get(in, "attachments"), Some(<<>>))>> >>)

(***************************************************************************)
(* callback.edit_original and followup.edit, JSON path: the same body      *)
(* literal in both.                                                        *)
(***************************************************************************)
MergedEmbed_existingFirst(embed, m0) ==
    Obj(<< <<"title", NC(Chain(m0, "title"), Chain(embed, "title"))>>,
           <<"description", NC(Chain(m0, "description"), Chain(embed, "description"))>>,
           <<"color", NC(Chain(m0, "color"), Chain(embed, "color"))>>,
           <<"url", NC(Chain(m0, "url"), Chain(embed, "url"))>>,
           <<"timestamp", NC(Chain(m0, "timestamp"), Chain(embed, "timestamp"))>>,
           <<"image", Some(Obj(<< <<"url", NC(Chain(Chain(m0, "image"), "url"),
                                              Chain(Chain(embed, "image"), "url"))>> >>))>>,
           <<"thumbnail", Some(Obj(<< <<"url", NC(Chain(Chain(m0, "thumbnail"), "url"),
                                                  Chain(Chain(embed, "thumbnail"), "url"))>> >>))>>,
           <<"author", Some(Obj(<<
                <<"name", NC(Chain(Chain(m0, "author"), "name"),
                             Chain(Chain(embed, "author"), "name"))>>,
                <<"icon_url", NC(Chain(Chain(m0, "author"), "icon_url"),
                                 Chain(Chain(embed, "author"), "icon_url"))>>,
                <<"url", NC(Chain(Chain(m0, "author"), "url"),
                            Chain(Chain(embed, "author"), "url"))>> >>))>>,
           <<"footer", Some(Obj(<<
                <<"text", NC(Chain(Chain(m0, "footer"), "text"),
                             Chain(Chain(embed, "footer"), "text"))>>,
                <<"icon_url", NC(Chain(Chain(m0, "footer"), "icon_url"),
                                 Chain(Chain(embed, "footer"), "icon_url"))>> >>))>>,
           <<"fields", NC(Chain(m0, "fields"), Chain(embed, "fields"))>> >>)

\* the embed literal: embed is embeds?.[0] || undefined, m0 is message.embeds?.[0]
MergedEmbed(embed, m0) ==
    Obj(<< <<"title", NC(Chain(embed, "title"), Chain(m0, "title"))>>,
           <<"description", NC(Chain(embed, "description"), Chain(m0, "description"))>>,
           <<"color", NC(Chain(embed, "color"), Chain(m0, "color"))>>,
           <<"url", NC(Chain(embed, "url"), Chain(m0, "url"))>>,
           <<"timestamp", NC(Chain(embed, "timestamp"), Chain(m0, "timestamp"))>>,
           <<"image", Some(Obj(<< <<"url", NC(Chain(Chain(embed, "image"), "url"),
                                              Chain(Chain(m0, "image"), "url"))>> >>))>>,
           <<"thumbnail", Some(Obj(<< <<"url", NC(Chain(Chain(embed, "thumbnail"), "url"),
                                                  Chain(Chain(m0, "thumbnail"), "url"))>> >>))>>,
           <<"author", Some(Obj(<<
                <<"name", NC(Chain(Chain(embed, "author"), "name"),
                             Chain(Chain(m0, "author"), "name"))>>,
                <<"icon_url", NC(Chain(Chain(embed, "author"), "icon_url"),
                                 Chain(Chain(m0, "author"), "icon_url"))>>,
                <<"url", NC(Chain(Chain(embed, "author"), "url"),
                            Chain(Chain(m0, "author"), "url"))>> >>))>>,
           <<"footer", Some(Obj(<<
                <<"text", NC(Chain(Chain(embed, "footer"), "text"),
                             Chain(Chain(m0, "footer"), "text"))>>,
                <<"icon_url", NC(Chain(Chain(embed, "footer"), "icon_url"),
                                 Chain(Chain(m0, "footer"), "icon_url"))>> >>))>>,
           <<"fields", NC(Chain(embed, "fields"), Chain(m0, "fields"))>> >>)

\* input.embeds && !input.embeds.length ? [] : [{ ... }]
EditEmbeds(in, msg) ==
    IF Get(in, "embeds") # Undef /\ Len(in["embeds"]) = 0
    THEN <<>>
    ELSE << MergedEmbed(Idx0(Get(in, "embeds")), Idx0(Get(msg, "embeds"))) >>

EditComponents_honourCaller(in, msg) ==
    IF Get(in, "components") # Undef
    THEN in["components"]
    ELSE NC(Get(msg, "components"), Some(<<>>))[1]

\* input.components && !input.components.length ? [] : (message.components ?? [])
EditComponents(in, msg) ==
    IF Get(in, "components") # Undef /\ Len(in["components"]) = 0
    THEN <<>>
    ELSE NC(Get(msg, "components"), Some(<<>>))[1]

EditBody_callerOnly(in, msg) ==
    Obj(<< <<"content", Get(in, "content")>>,
           <<"embeds", Some(EditEmbeds(in, msg))>>,
           <<"components", Some(EditComponents(in, msg))>>,
           <<"allowed_mentions", Get(in, "allowed_mentions")>>,
           <<"attachments", NC(Get(in, "attachments"), Some(<<>>))>> >>)

\* the body literal of the PATCH
EditBody(in, msg) ==
    Obj(<< <<"content", NC(Get(in, "content"), Get(msg, "content"))>>,
           <<"embeds", Some(EditEmbeds(in, msg))>>,
           <<"components", Some(EditComponents(in, msg))>>,
           <<"allowed_mentions", Get(in, "allowed_mentions")>>,
           <<"attachments", NC(Get(in, "attachments"),
                               NC(Get(msg, "attachments"), Some(<<>>)))>> >>)

(***************************************************************************)
(* sendAttachment.                                                         *)
(***************************************************************************)
\* A file is held as a string: a Buffer is "buf:<content>", anything else is
\* a JavaScript string.
Buffers == {"buf:A", "buf:B"}
MediaUrls == {"https://cdn/a.png"}

\* Buffer.isBuffer(attachment.file)
IsBuffer(m) == m # Undef /\ m[1] \in Buffers

\* typeof attachment.file === 'string'
IsString(m) == m # Undef /\ m[1] \notin Buffers

\* isValidMedia: a local or remote image reference
IsValidMedia(m) == m # Undef /\ m[1] \in MediaUrls

\* Buffer.from(response.data) of the GET of url
Downloaded(url) == "buf:A"

\* (!attachment.file && !attachment.url) || !attachment.filename
MissingProperty(a) ==
    \/ ~Truthy(Get(a, "file")) /\ ~Truthy(Get(a, "url"))
    \/ ~Truthy(Get(a, "filename"))

\* form.append(`files[${i}]`, params.attachments[i].file, params.attachments[i].filename)
FilePart(atts, i) ==
    Obj(<< <<"name", Some("files")>>, <<"index", Some(i - 1)>>,
           <<"file", Get(atts[i], "file")>>,
           <<"filename", Get(atts[i], "filename")>> >>)

FileParts(atts) == [i \in DOMAIN atts |-> FilePart(atts, i)]

Metadata_idFromOne(atts) ==
    [i \in DOMAIN atts |->
        Obj(<< <<"id", Some(i)>>,
               <<"filename", Get(atts[i], "filename")>>,
               <<"description", NC(Get(atts[i], "description"), Some(""))>> >>)]

\* params.attachments.map((a, index) => ({ id: index, filename, description ?? '' }))
Metadata(atts) ==
    [i \in DOMAIN atts |->
        Obj(<< <<"id", Some(i - 1)>>,
               <<"filename", Get(atts[i], "filename")>>,
               <<"description", NC(Get(atts[i], "description"), Some(""))>> >>)]

\* params after "params.flags = flags" and the rewrite of params.attachments
Rewritten(params, flags) ==
    Merge(params, [flags |-> flags, attachments |-> Metadata(params["attachments"])])

PayloadJson_keepAttachments(sender, params, type) ==
    IF sender = "data"
    THEN Obj(<< <<"type", type>>, <<"data", Some(params)>> >>)
    ELSE Obj(<< <<"data", Some(params)>> >>)

\* the payload_json part; type is optional (null for the 'body' callers,
\* which JSON.stringify never sees because that branch has no type key)
PayloadJson(sender, params, type) ==
    IF sender = "data"
    THEN Obj(<< <<"type", type>>, <<"data", Some(params)>> >>)
    ELSE Obj(<< <<"data", Some(Without(params, "attachments"))>> >>)

\* the multipart form: the files[i] parts in order, then payload_json built
\* from params after the in-place rewrite
Form(sender, params, type, flags) ==
    Append(FileParts(params["attachments"]),
           Merge([name |-> "payload_json"],
                 [json |-> PayloadJson(sender, Rewritten(params, flags), type)]))

(***************************************************************************)
(* Requests, responses and results.                                        *)
(***************************************************************************)
\* a request through https / attemptHandler (JSON body)
JsonReq(method, path, body) ==
    [kind |-> "json", method |-> method, path |-> path, body |-> body]

\* axios.get(attachment.file, { responseType: 'arraybuffer' })
DownloadReq(url) ==
    [kind |-> "download", method |-> "get", path |-> url, body |-> EmptyObj]

\* axios({ method, url, data: form, headers })
MultipartReq(method, path, form) ==
    [kind |-> "multipart", method |-> method, path |-> path, body |-> form]

Return(tag, val) == [kind |-> "return", tag |-> tag, val |-> val]

\* via is "getAxiosError" when the thrown value is the result of that routine
Throw(tag, via) == [kind |-> "throw", tag |-> tag, via |-> via]

JsonBodies == {"{\"message\":\"bad\"}"}

\* isValidJSON
IsValidJSON(body) == body \in JsonBodies

\* what https.post resolves to
HttpsResponses ==
    { [statusCode |-> NO_CONTENT, body |-> "", date |-> "Tue, 03 Nov 2026"],
      [statusCode |-> 200, body |-> "{\"message\":\"bad\"}", date |-> "Tue, 03 Nov 2026"],
      [statusCode |-> 400, body |-> "{\"message\":\"bad\"}", date |-> "Tue, 03 Nov 2026"],
      [statusCode |-> 400, body |-> "Bad Request", date |-> "Tue, 03 Nov 2026"],
      [statusCode |-> 500, body |-> "", date |-> "Tue, 03 Nov 2026"] }

\* the argument of new Error(...) in reply and handleCallbacks
ErrorTag(r) ==
    IF Len(r.body) > 0
    THEN IF IsValidJSON(r.body) THEN "formatted" ELSE "raw_text"
    ELSE "response_object"

\* reply, after https.post resolved with r
ReplyResult_any2xx(r, in) ==
    IF r.statusCode < 200 \/ r.statusCode >= 300
    THEN Throw(ErrorTag(r), "")
    ELSE IF Get(in, "return_date") = <<TRUE>>
         THEN Return("date", Some(r.date))
         ELSE Return("true", Undef)

ReplyResult(r, in) ==
    IF r.statusCode # NO_CONTENT
    THEN Throw(ErrorTag(r), "")
    ELSE IF Get(in, "return_date") = <<TRUE>>
         THEN Return("date", Some(r.date))
         ELSE Return("true", Undef)

\* handleCallbacks, after https[method] resolved with r
HandleCallbacksResult(r, return_date) ==
    IF r.statusCode >= 200 /\ r.statusCode < 300
    THEN IF return_date
         THEN Return("date", Some(r.date))
         ELSE IF IsValidJSON(r.body) THEN Return("parsed", Some(r.body))
              ELSE Return("body", Some(r.body))
    ELSE Throw(ErrorTag(r), "")

\* attemptHandler resolves (TRUE) or rejects (FALSE)
AttemptOutcomes == BOOLEAN

\* extendPayload returns (TRUE) or throws (FALSE)
ExtendOutcomes == BOOLEAN

ExtendFailed == [outcome |-> "extend_fail", status |-> 0]

GetOriginalResult_rethrow(fetched, extended, msg) ==
    IF fetched /\ extended THEN Return("message", Some(msg))
    ELSE Throw("transport", "")

\* get_original: fetched is whether attemptHandler resolved, extended whether
\* extendPayload returned; everything else is the catch
GetOriginalResult(fetched, extended, msg) ==
    IF fetched /\ extended THEN Return("message", Some(msg))
    ELSE Return("null", Undef)

(***************************************************************************)
(* The inputs the calls are made with, and the messages the provider       *)
(* holds.                                                                  *)
(***************************************************************************)
\* the objects that have key k with a value of vals, or do not have it
Opt(k, vals) == {EmptyObj} \cup {[j \in {k} |-> v] : v \in vals}

Combine(S, T) == {Merge(a, b) : a \in S, b \in T}

Leaves ==
    {"title", "description", "color", "url", "timestamp", "image.url",
     "thumbnail.url", "author.name", "author.icon_url", "author.url",
     "footer.text", "footer.icon_url", "fields"}

LeafValue(e, l) ==
    CASE l = "image.url" -> Chain(Get(e, "image"), "url")
      [] l = "thumbnail.url" -> Chain(Get(e, "thumbnail"), "url")
      [] l = "author.name" -> Chain(Get(e, "author"), "name")
      [] l = "author.icon_url" -> Chain(Get(e, "author"), "icon_url")
      [] l = "author.url" -> Chain(Get(e, "author"), "url")
      [] l = "footer.text" -> Chain(Get(e, "footer"), "text")
      [] l = "footer.icon_url" -> Chain(Get(e, "footer"), "icon_url")
      [] OTHER -> Get(e, l)

\* the embed that has the leaves P of the embed full, and no others
Prune(full, P) ==
    LET leaf(l) == IF l \in P THEN LeafValue(full, l) ELSE Undef
        has(ls) == \E i \in DOMAIN ls : ls[i][2] \in P
        subobj(ls) == IF has(ls)
                      THEN Some(Obj([i \in DOMAIN ls |-> <<ls[i][1], leaf(ls[i][2])>>]))
                      ELSE Undef
    IN Obj(<< <<"title", leaf("title")>>,
              <<"description", leaf("description")>>,
              <<"color", leaf("color")>>,
              <<"url", leaf("url")>>,
              <<"timestamp", leaf("timestamp")>>,
              <<"image", subobj(<< <<"url", "image.url">> >>)>>,
              <<"thumbnail", subobj(<< <<"url", "thumbnail.url">> >>)>>,
              <<"author", subobj(<< <<"name", "author.name">>,
                                    <<"icon_url", "author.icon_url">>,
                                    <<"url", "author.url">> >>)>>,
              <<"footer", subobj(<< <<"text", "footer.text">>,
                                    <<"icon_url", "footer.icon_url">> >>)>>,
              <<"fields", leaf("fields")>> >>)

CallerFull ==
    [title |-> "c_title", description |-> "c_desc", color |-> 1, url |-> "c_url",
     timestamp |-> "c_ts", image |-> [url |-> "c_img"], thumbnail |-> [url |-> "c_thumb"],
     author |-> [name |-> "c_name", icon_url |-> "c_aicon", url |-> "c_aurl"],
     footer |-> [text |-> "c_text", icon_url |-> "c_ficon"],
     fields |-> <<"c_field">>]

\* falsy but present values: '' and 0
CallerFalsy ==
    [title |-> "", description |-> "", color |-> 0,
     author |-> [name |-> "", icon_url |-> "c_aicon"],
     footer |-> [text |-> "", icon_url |-> "c_ficon"],
     fields |-> <<>>]

ExistingFull ==
    [title |-> "x_title", description |-> "x_desc", color |-> 2, url |-> "x_url",
     timestamp |-> "x_ts", image |-> [url |-> "x_img"], thumbnail |-> [url |-> "x_thumb"],
     author |-> [name |-> "x_name", icon_url |-> "x_aicon", url |-> "x_aurl"],
     footer |-> [text |-> "x_text", icon_url |-> "x_ficon"],
     fields |-> <<"x_field">>]

ExistingSecond == [title |-> "x_title2", description |-> "x_desc2"]

LeafSets ==
    {{}, Leaves} \cup {{l} : l \in Leaves} \cup {Leaves \ {l} : l \in Leaves}

CallerEmbeds == {Prune(CallerFull, P) : P \in LeafSets} \cup {CallerFalsy}

IconOnlyFooter == Prune(CallerFull, {"footer.icon_url"})
IconOnlyAuthor == Prune(CallerFull, {"author.icon_url"})

SeqsOver(S, lo, hi) == UNION {[1..n -> S] : n \in lo..hi}

\* the values of input.embeds
EmbedSeqs ==
    {<<e>> : e \in CallerEmbeds} \cup SeqsOver({CallerFull, IconOnlyFooter}, 2, MaxEmbeds)

FewEmbedSeqs ==
    {<<>>, <<IconOnlyFooter>>, <<IconOnlyAuthor>>, <<CallerFull>>, <<CallerFalsy>>}
    \cup SeqsOver({CallerFull, IconOnlyFooter}, 2, MaxEmbeds)

ComponentSeqs == {<<>>, <<"c_row">>}

Attachments ==
    { [file |-> "buf:B", filename |-> "b.bin", description |-> "a buffer"],
      [file |-> "https://cdn/a.png", filename |-> "a.png"],
      [filename |-> "c.png"],
      [file |-> "buf:A"],
      [url |-> "https://cdn/a.png", filename |-> "d.png"],
      [file |-> "plain text", filename |-> "e.txt"] }

AttachmentSeqs == SeqsOver(Attachments, 1, MaxAttachments)

EphemeralOpts ==
    {EmptyObj, [ephemeral |-> TRUE], [ephemeral |-> FALSE], [flags |-> 4],
     [ephemeral |-> TRUE, flags |-> 4], [ephemeral |-> FALSE, flags |-> 4]}

\* inputs of reply, component_update and followup.create
MessageInputs ==
    Combine(Combine(EphemeralOpts, Opt("content", {"", "hi"})),
            Opt("return_date", {TRUE}))
    \cup Combine(Combine(Combine(Opt("content", {"hi"}), Opt("embeds", FewEmbedSeqs)),
                         Combine(Opt("components", ComponentSeqs), Opt("tts", {TRUE, FALSE}))),
                 Combine(Opt("allowed_mentions", {"am_none"}), Opt("attachments", {<<>>})))
    \cup Combine(Combine({EmptyObj, [ephemeral |-> TRUE], [ephemeral |-> TRUE, flags |-> 4]},
                         Opt("embeds", {<<IconOnlyFooter>>})),
                 {[attachments |-> a] : a \in AttachmentSeqs})

\* inputs of edit_original and followup.edit
EditInputs ==
    Combine(Opt("embeds", {<<>>} \cup EmbedSeqs), Opt("content", {"new"}))
    \cup Combine(Combine(Combine(Opt("embeds", {<<>>, <<CallerFull>>}),
                                 Opt("content", {"", "new"})),
                         Combine(Opt("components", ComponentSeqs),
                                 Opt("ephemeral", {TRUE}))),
                 Combine(Opt("allowed_mentions", {"am_none"}), Opt("attachments", {<<>>})))
    \cup Combine({EmptyObj, [ephemeral |-> TRUE], [ephemeral |-> TRUE, flags |-> 4]},
                 {[attachments |-> a] : a \in AttachmentSeqs})

\* the messages the provider may hold
Messages ==
    Combine({[content |-> "old"]},
            Combine({[embeds |-> e] : e \in {<<>>, <<ExistingFull>>,
                                            <<Prune(ExistingFull, {"title", "footer.icon_url"})>>}
                                           \cup SeqsOver({ExistingFull, ExistingSecond}, 2, MaxEmbeds)},
                    {EmptyObj,
                     [components |-> <<>>, attachments |-> <<>>],
                     [components |-> <<"x_row">>,
                      attachments |-> <<[id |-> 0, filename |-> "x.png"]>>]}))

\* a message somebody else writes while an edit is under way
ExternalMessage ==
    [content |-> "ext", embeds |-> <<[title |-> "e_title", footer |-> [text |-> "e_text"]]>>,
     components |-> <<"e_row">>, attachments |-> <<[id |-> 0, filename |-> "e.png"]>>]

\* what an edit by somebody else can make of the message msg
ExternalEdits(msg) == {Merge(msg, [content |-> "ext"]), ExternalMessage}

\* the fields of a message that a PATCH body replaces
MessageFields == {"content", "embeds", "components", "attachments"}

\* the message the provider holds after it applied the PATCH body
ApplyPatch(msg, body) ==
    Merge(msg, [k \in (DOMAIN body) \cap MessageFields |-> body[k]])

OneMessage == CHOOSE m \in Messages : Get(m, "components") = Some(<<"x_row">>)

\* inputs of defer and component_defer
DeferInputs == Opt("ephemeral", {TRUE, FALSE})

\* inputs of autocomplete_reply
AutocompleteInputs == {[choices |-> <<[name |-> "one", value |-> "1"]>>]}

\* inputs of modal_reply
ModalInputs == {[custom_id |-> "modal", title |-> "Title", components |-> <<"c_row">>]}

Ops == {"reply", "component_update", "edit_original", "get_original",
        "followup_create", "followup_edit", "defer", "component_defer",
        "autocomplete_reply", "modal_reply", "upgrade"}

InputsOf(o) ==
    CASE o \in {"reply", "component_update", "followup_create"} -> MessageInputs
      [] o \in {"edit_original", "followup_edit"} -> EditInputs
      [] o \in {"defer", "component_defer"} -> DeferInputs
      [] o = "autocomplete_reply" -> AutocompleteInputs
      [] o = "modal_reply" -> ModalInputs
      [] OTHER -> {EmptyObj}

MessagesOf(o) ==
    IF o \in {"edit_original", "followup_edit", "get_original"} THEN Messages ELSE {OneMessage}

NoCall == [sender |-> "", url |-> "", method |-> "", type |-> Undef, flags |-> 0]

Init ==
    \E o \in Ops :
      \E in \in InputsOf(o) :
        \E st \in MessagesOf(o) :
          /\ op = o
          /\ input = in
          /\ input0 = in
          /\ stored = st
          /\ message = Undef
          /\ net = <<>>
          /\ pc = "idle"
          /\ result = Undef
          /\ idx = 0
          /\ sa = NoCall
          /\ resp = <<>>
          /\ ext = <<>>
          /\ past = <<>>

(***************************************************************************)
(* The operations.  A call runs from "idle" to "done"; between two actions *)
(* it is suspended on an await.                                            *)
(***************************************************************************)
\* the call of sendAttachment(sender, params, url, method, type, flags)
EnterSendAttachment(sender, url, method, type, flags) ==
    /\ sa' = [sender |-> sender, url |-> url, method |-> method,
              type |-> type, flags |-> flags]
    /\ idx' = 1
    /\ pc' = "sa_loop"
    /\ net' = net

\* a JSON request is issued and the call waits for it at label
Issue(req, label) ==
    /\ net' = Append(net, req)
    /\ pc' = label
    /\ UNCHANGED <<sa, idx>>

Finish(r) ==
    /\ result' = r
    /\ pc' = "done"

\* how a request was answered: resolved (with a status where the handler
\* reads one), or rejected
Resolved(status) == [outcome |-> "ok", status |-> status]
Rejected == [outcome |-> "fail", status |-> 0]
Answered(o) == resp' = Append(resp, o)

reply_call ==
    /\ pc = "idle" /\ op = "reply"
    /\ input' = WithFlags(input)
    /\ IF HasAttachments(input)
       THEN EnterSendAttachment("data", CallbackPath, "post", Some(TYPE_REPLY), Flags(input))
       ELSE Issue(JsonReq("post", CallbackPath, ReplyBody(WithFlags(input))), "reply_wait")
    /\ UNCHANGED <<ext, past, op, input0, stored, message, result, resp>>

reply_response ==
    /\ pc = "reply_wait"
    /\ \/ \E r \in HttpsResponses :
             Finish(ReplyResult(r, input)) /\ Answered(Resolved(r.statusCode))
       \/ Finish(Throw("transport", "")) /\ Answered(Rejected)
    /\ UNCHANGED <<ext, past, op, input, input0, stored, message, net, idx, sa>>

component_update_call ==
    /\ pc = "idle" /\ op = "component_update"
    /\ input' = WithFlags(input)
    /\ IF HasAttachments(input)
       THEN EnterSendAttachment("data", CallbackPath, "post",
                                Some(TYPE_COMPONENT_UPDATE), Flags(input))
       ELSE Issue(JsonReq("post", CallbackPath, ComponentUpdateBody(WithFlags(input))),
                  "cb_wait")
    /\ UNCHANGED <<ext, past, op, input0, stored, message, result, resp>>

defer_call ==
    /\ pc = "idle" /\ op = "defer"
    /\ Issue(JsonReq("post", CallbackPath, CallbackBody(TYPE_DEFER, DeferData(input))),
             "cb_wait")
    /\ UNCHANGED <<ext, past, op, input, input0, stored, message, result, resp>>

component_defer_call ==
    /\ pc = "idle" /\ op = "component_defer"
    /\ Issue(JsonReq("post", CallbackPath,
                     CallbackBody(TYPE_COMPONENT_DEFER, DeferData(input))), "cb_wait")
    /\ UNCHANGED <<ext, past, op, input, input0, stored, message, result, resp>>

autocomplete_reply_call ==
    /\ pc = "idle" /\ op = "autocomplete_reply"
    /\ Issue(JsonReq("post", CallbackPath, CallbackBody(TYPE_AUTOCOMPLETE, input)), "cb_wait")
    /\ UNCHANGED <<ext, past, op, input, input0, stored, message, result, resp>>

modal_reply_call ==
    /\ pc = "idle" /\ op = "modal_reply"
    /\ Issue(JsonReq("post", CallbackPath, CallbackBody(TYPE_MODAL, input)), "cb_wait")
    /\ UNCHANGED <<ext, past, op, input, input0, stored, message, result, resp>>

upgrade_call ==
    /\ pc = "idle" /\ op = "upgrade"
    /\ Issue(JsonReq("post", CallbackPath, CallbackBody(TYPE_UPGRADE, input)), "cb_wait")
    /\ UNCHANGED <<ext, past, op, input, input0, stored, message, result, resp>>

handleCallbacks_response ==
    /\ pc = "cb_wait"
    /\ \/ \E r \in HttpsResponses :
             Finish(HandleCallbacksResult(r, ReturnDate(op)))
             /\ Answered(Resolved(r.statusCode))
       \/ Finish(Throw("transport", "")) /\ Answered(Rejected)
    /\ UNCHANGED <<ext, past, op, input, input0, stored, message, net, idx, sa>>

get_original_call ==
    /\ pc = "idle" /\ op = "get_original"
    /\ Issue(JsonReq("get", OriginalPath, EmptyObj), "go_wait")
    /\ UNCHANGED <<ext, past, op, input, input0, stored, message, result, resp>>

get_original_response ==
    /\ pc = "go_wait"
    /\ \E fetched \in AttemptOutcomes, extended \in ExtendOutcomes :
          /\ Finish(GetOriginalResult(fetched, extended, stored))
          /\ resp' = IF fetched
                     THEN IF extended THEN <<Resolved(200)>>
                          ELSE <<Resolved(200), ExtendFailed>>
                     ELSE <<Rejected>>
    /\ UNCHANGED <<ext, past, op, input, input0, stored, message, net, idx, sa>>

edit_original_call ==
    /\ pc = "idle" /\ op = "edit_original"
    /\ IF HasAttachments(input)
       THEN EnterSendAttachment("body", OriginalPath, "patch", Undef, 0)
       ELSE Issue(JsonReq("get", OriginalPath, EmptyObj), "eo_get")
    /\ UNCHANGED <<ext, past, op, input, input0, stored, message, result, resp>>

edit_original_fetched_propagate ==
    /\ pc = "eo_get"
    /\ \/ /\ Finish(Throw("transport", ""))
          /\ Answered(Rejected)
          /\ UNCHANGED <<message, net>>
       \/ /\ message' = Some(stored)
          /\ net' = Append(net, JsonReq("patch", OriginalPath, EditBody(input, stored)))
          /\ pc' = "eo_patch"
          /\ Answered(Resolved(200))
          /\ UNCHANGED result
    /\ UNCHANGED <<ext, past, op, input, input0, stored, idx, sa>>

\* the GET failed: the empty catch leaves message undefined, and the call
\* returns null; or it resolved, and the PATCH is issued
edit_original_fetched ==
    /\ pc = "eo_get"
    /\ \/ /\ Finish(Return("null", Undef))
          /\ Answered(Rejected)
          /\ UNCHANGED <<message, net>>
       \/ /\ message' = Some(stored)
          /\ net' = Append(net, JsonReq("patch", OriginalPath, EditBody(input, stored)))
          /\ pc' = "eo_patch"
          /\ Answered(Resolved(200))
          /\ UNCHANGED result
    /\ UNCHANGED <<ext, past, op, input, input0, stored, idx, sa>>

\* the PATCH resolved, the provider having applied it, or it was rejected
edit_original_patched ==
    /\ pc = "eo_patch"
    /\ \/ /\ Finish(Return("message", Undef)) /\ Answered(Resolved(200))
          /\ stored' = ApplyPatch(stored, net[Len(net)].body)
       \/ /\ Finish(Throw("transport", "")) /\ Answered(Rejected)
          /\ UNCHANGED stored
    /\ UNCHANGED <<ext, past, op, input, input0, message, net, idx, sa>>

followup_create_call ==
    /\ pc = "idle" /\ op = "followup_create"
    /\ IF HasAttachments(input)
       THEN /\ EnterSendAttachment("body", WebhookPath, "post", Undef, Flags(input))
            /\ input' = input
       ELSE /\ input' = FixEmbeds(input)
            /\ Issue(JsonReq("post", WebhookPath, CreateBody(FixEmbeds(input))), "fc_wait")
    /\ UNCHANGED <<ext, past, op, input0, stored, message, result, resp>>

followup_create_response ==
    /\ pc = "fc_wait"
    /\ \/ Finish(Return("message", Undef)) /\ Answered(Resolved(200))
       \/ Finish(Throw("transport", "")) /\ Answered(Rejected)
    /\ UNCHANGED <<ext, past, op, input, input0, stored, message, net, idx, sa>>

followup_edit_call ==
    /\ pc = "idle" /\ op = "followup_edit"
    /\ IF HasAttachments(input)
       THEN EnterSendAttachment("body", FollowupMessagePath, "patch", Undef, Flags(input))
       ELSE Issue(JsonReq("get", FollowupMessagePath, EmptyObj), "fe_get")
    /\ UNCHANGED <<ext, past, op, input, input0, stored, message, result, resp>>

followup_edit_fetched_swallow ==
    /\ pc = "fe_get"
    /\ \/ /\ Finish(Return("null", Undef))
          /\ Answered(Rejected)
          /\ UNCHANGED <<message, net>>
       \/ /\ message' = Some(stored)
          /\ net' = Append(net, JsonReq("patch", FollowupMessagePath, EditBody(input, stored)))
          /\ pc' = "fe_patch"
          /\ Answered(Resolved(200))
          /\ UNCHANGED result
    /\ UNCHANGED <<ext, past, op, input, input0, stored, idx, sa>>

\* the GET is awaited outside any try: its failure is the call's failure
followup_edit_fetched ==
    /\ pc = "fe_get"
    /\ \/ /\ Finish(Throw("transport", ""))
          /\ Answered(Rejected)
          /\ UNCHANGED <<message, net>>
       \/ /\ message' = Some(stored)
          /\ net' = Append(net, JsonReq("patch", FollowupMessagePath, EditBody(input, stored)))
          /\ pc' = "fe_patch"
          /\ Answered(Resolved(200))
          /\ UNCHANGED result
    /\ UNCHANGED <<ext, past, op, input, input0, stored, idx, sa>>

\* the PATCH resolved, the provider having applied it, or it was rejected
followup_edit_patched ==
    /\ pc = "fe_patch"
    /\ \/ /\ Finish(Return("message", Undef)) /\ Answered(Resolved(200))
          /\ stored' = ApplyPatch(stored, net[Len(net)].body)
       \/ /\ Finish(Throw("transport", "")) /\ Answered(Rejected)
          /\ UNCHANGED stored
    /\ UNCHANGED <<ext, past, op, input, input0, message, net, idx, sa>>

\* one iteration of the first loop of sendAttachment, up to its await
sendAttachment_check ==
    /\ pc = "sa_loop" /\ idx <= Len(input["attachments"])
    /\ LET attachment == input["attachments"][idx]
       IN IF MissingProperty(attachment)
          THEN /\ Finish(Throw("validation_missing", "getAxiosError"))
               /\ UNCHANGED <<net, idx>>
          ELSE IF IsValidMedia(Get(attachment, "file"))
               THEN IF IsString(Get(attachment, "file"))
                    THEN /\ net' = Append(net, DownloadReq(attachment["file"]))
                         /\ pc' = "sa_download"
                         /\ UNCHANGED <<result, idx>>
                    ELSE /\ idx' = idx + 1
                         /\ UNCHANGED <<net, pc, result>>
               ELSE IF ~IsBuffer(Get(attachment, "file"))
                    THEN /\ Finish(Throw("validation_filetype", "getAxiosError"))
                         /\ UNCHANGED <<net, idx>>
                    ELSE /\ idx' = idx + 1
                         /\ UNCHANGED <<net, pc, result>>
    /\ UNCHANGED <<ext, past, op, input, input0, stored, message, sa, resp>>

\* axios.get resolved (attachment.file becomes the Buffer) or rejected
sendAttachment_downloaded ==
    /\ pc = "sa_download"
    /\ \/ /\ input' = Merge(input, [attachments |->
                 [input["attachments"] EXCEPT ![idx] =
                     Merge(@, [file |-> Downloaded(@["file"])])]])
          /\ idx' = idx + 1
          /\ pc' = "sa_loop"
          /\ Answered(Resolved(200))
          /\ UNCHANGED result
       \/ /\ Finish(Throw("transport", "getAxiosError"))
          /\ Answered(Rejected)
          /\ UNCHANGED <<input, idx>>
    /\ UNCHANGED <<ext, past, op, input0, stored, message, net, sa>>

sendAttachment_send_copy ==
    /\ pc = "sa_loop" /\ idx > Len(input["attachments"])
    /\ net' = Append(net, MultipartReq(sa.method, sa.url,
                                       Form(sa.sender, input, sa.type, sa.flags)))
    /\ input' = input
    /\ pc' = "sa_wait"
    /\ UNCHANGED <<ext, past, op, input0, stored, message, result, idx, sa, resp>>

\* after the loop: the form is filled, params is rewritten in place and the
\* multipart request is issued
sendAttachment_send ==
    /\ pc = "sa_loop" /\ idx > Len(input["attachments"])
    /\ net' = Append(net, MultipartReq(sa.method, sa.url,
                                       Form(sa.sender, input, sa.type, sa.flags)))
    /\ input' = Rewritten(input, sa.flags)
    /\ pc' = "sa_wait"
    /\ UNCHANGED <<ext, past, op, input0, stored, message, result, idx, sa, resp>>

\* what the caller of sendAttachment does with response.data
AfterSendAttachment(caller) ==
    IF caller = "reply" THEN Return("true", Undef) ELSE Return("data", Undef)

\* the status check after the multipart request resolved
SendAttachmentResult(status, caller) ==
    IF status < 200 \/ status >= 300
    THEN Throw("http_status", "getAxiosError")
    ELSE AfterSendAttachment(caller)

sendAttachment_response_rethrow ==
    /\ pc = "sa_wait"
    /\ \/ \E status \in {200, NO_CONTENT} :
             Finish(SendAttachmentResult(status, op)) /\ Answered(Resolved(status))
       \/ Finish(Throw("transport", "")) /\ Answered(Rejected)
    /\ UNCHANGED <<ext, past, op, input, input0, stored, message, net, idx, sa>>

sendAttachment_response ==
    /\ pc = "sa_wait"
    /\ \/ \E status \in {200, NO_CONTENT} :
             Finish(SendAttachmentResult(status, op)) /\ Answered(Resolved(status))
       \/ Finish(Throw("transport", "getAxiosError")) /\ Answered(Rejected)
    /\ UNCHANGED <<ext, past, op, input, input0, stored, message, net, idx, sa>>

\* Somebody else edits the stored message while an edit-style call is
\* between issuing its GET and receiving the answer to its PATCH.
ExternalEdit ==
    /\ pc \in {"eo_get", "eo_patch", "fe_get", "fe_patch"}
    /\ Len(ext) < MaxExternalEdits
    /\ \E m \in ExternalEdits(stored) :
          /\ stored' = m
          /\ ext' = Append(ext, [at |-> pc, to |-> m])
    /\ UNCHANGED <<past, op, input, input0, message, net, pc, result, idx, sa, resp>>

\* The caller makes the same call again with the same input object, as the
\* earlier call left it.
reinvoke ==
    /\ pc = "done"
    /\ Len(past) + 1 < MaxCalls
    /\ past' = Append(past, [net |-> net, resp |-> resp, result |-> result,
                             input0 |-> input0])
    /\ input0' = input
    /\ pc' = "idle"
    /\ result' = Undef
    /\ message' = Undef
    /\ net' = <<>>
    /\ resp' = <<>>
    /\ ext' = <<>>
    /\ idx' = 0
    /\ sa' = NoCall
    /\ UNCHANGED <<op, input, stored>>

Next ==
    \/ reply_call
    \/ reply_response
    \/ component_update_call
    \/ defer_call
    \/ component_defer_call
    \/ autocomplete_reply_call
    \/ modal_reply_call
    \/ upgrade_call
    \/ handleCallbacks_response
    \/ get_original_call
    \/ get_original_response
    \/ edit_original_call
    \/ edit_original_fetched
    \/ edit_original_patched
    \/ followup_create_call
    \/ followup_create_response
    \/ followup_edit_call
    \/ followup_edit_fetched
    \/ followup_edit_patched
    \/ sendAttachment_check
    \/ sendAttachment_downloaded
    \/ sendAttachment_send
    \/ sendAttachment_response
    \/ ExternalEdit
    \/ reinvoke

Spec == Init /\ [][Next]_vars

(***************************************************************************)
(* What the claims speak of.                                               *)
(***************************************************************************)
\* the requests that carry a message: every POST and PATCH
Sends ==
    {i \in DOMAIN net :
        net[i].kind = "multipart"
        \/ (net[i].kind = "json" /\ net[i].method \in {"post", "patch"})}

JsonSends == {i \in Sends : net[i].kind = "json"}
MultipartSends == {i \in Sends : net[i].kind = "multipart"}

\* the JSON patch of an edit without attachments
JsonPatches == {i \in JsonSends : net[i].method = "patch"}

\* the payload_json part of a multipart request
PayloadOf(req) == req.body[Len(req.body)].json

\* the message object a request carries
SentMessage(req) ==
    IF req.kind = "multipart" THEN PayloadOf(req)["data"]
    ELSE IF req.path = CallbackPath THEN req.body["data"]
    ELSE req.body

NormalizerOps ==
    {"reply", "component_update", "edit_original", "followup_create", "followup_edit"}

CreateOps == {"reply", "followup_create"}
EditOps == {"edit_original", "followup_edit"}

\* the optional leaf l of an optional embed
LeafOpt(m, l) == IF m = Undef THEN Undef ELSE LeafValue(m[1], l)

\* C1: for every payload-normalizer operation, on the JSON path and on the
\* multipart path, whenever input.ephemeral is true the body handed to the
\* transport carries flags = 64, whatever input.flags was.  (The claim's
\* second half, flags = 0 without ephemeral, is left out: the first half
\* alone already fails.)
C1_EphemeralSetsFlags ==
    (op \in NormalizerOps /\ Get(input0, "ephemeral") = Some(TRUE)) =>
        \A i \in Sends : Get(SentMessage(net[i]), "flags") = Some(64)

\* C2: in an edit without attachments, an explicit empty input.embeds gives
\* an empty embeds in the PATCH body, and an omitted input.embeds gives the
\* fetched message's embeds sequence unchanged.
C2_EmbedsClearedOrPreserved ==
    op \in EditOps =>
        \A i \in JsonPatches :
            /\ Get(input0, "embeds") = Some(<<>>) => net[i].body["embeds"] = <<>>
            /\ Get(input0, "embeds") = Undef
                  => net[i].body["embeds"] = message[1]["embeds"]

Atts0 == IF HasAttachments(input0) THEN input0["attachments"] ELSE <<>>

\* an attachment the dispatcher must refuse: neither file nor url, or no filename
Refused(a) ==
    \/ (Get(a, "file") = Undef /\ Get(a, "url") = Undef)
    \/ Get(a, "filename") = Undef

\* C4: in the attachment dispatcher, if any attachment has neither file nor
\* url, or has no filename, the call fails with a validation error and no
\* network call (download or multipart request) is made at any point.
C4_ValidationBeforeAnyNetworkCall ==
    (\E i \in DOMAIN Atts0 : Refused(Atts0[i])) =>
        /\ net = <<>>
        /\ pc = "done" =>
              /\ result.kind = "throw"
              /\ result.tag \in {"validation_missing", "validation_filetype"}

\* the file of an attachment as the form carries it: the Buffer, or the
\* bytes downloaded from the URL
FileSent(a) == IF IsString(Get(a, "file")) THEN Downloaded(a["file"]) ELSE a["file"]

\* the i-th binary part is files[i] with the i-th attachment's file and filename
FilesInOrder(req) ==
    /\ Len(req.body) = Len(Atts0) + 1
    /\ \A i \in DOMAIN Atts0 :
          /\ req.body[i]["name"] = "files"
          /\ req.body[i]["index"] = i - 1
          /\ req.body[i]["file"] = FileSent(Atts0[i])
          /\ req.body[i]["filename"] = Atts0[i]["filename"]

\* payload_json has an attachments array whose i-th entry has id = i and the
\* filename of files[i]
MetadataInOrder(req) ==
    /\ Get(PayloadOf(req)["data"], "attachments") # Undef
    /\ Len(PayloadOf(req)["data"]["attachments"]) = Len(Atts0)
    /\ \A i \in DOMAIN Atts0 :
          /\ PayloadOf(req)["data"]["attachments"][i]["id"] = i - 1
          /\ PayloadOf(req)["data"]["attachments"][i]["filename"] = req.body[i]["filename"]

\* C5 as claimed: in every multipart dispatch, in both encoding modes, the
\* i-th binary part is files[i] with the file and filename of the i-th input
\* attachment, and payload_json's attachments array has at position i an
\* entry with id = i and the filename of files[i].
C5_PartsAndMetadataInBothModes ==
    \A k \in MultipartSends : FilesInOrder(net[k]) /\ MetadataInOrder(net[k])

\* C5 as amended: the binary parts are as claimed in both modes; the
\* attachments array is in payload_json, as claimed, in 'data' mode only, and
\* in any other mode payload_json has no attachments key.
C5_PartsInOrderMetadataInDataMode ==
    \A k \in MultipartSends :
        /\ FilesInOrder(net[k])
        /\ sa.sender = "data" => MetadataInOrder(net[k])
        /\ sa.sender # "data" => Get(PayloadOf(net[k])["data"], "attachments") = Undef

\* C5 happens: a 'data' mode dispatch of two attachments, the first a URL
\* that was downloaded, went out
C5_Witness ==
    /\ sa.sender = "data" /\ MultipartSends # {}
    /\ Len(Atts0) = 2
    /\ Atts0[1]["file"] \in MediaUrls
    /\ Atts0[1]["filename"] # Atts0[2]["filename"]
    /\ PayloadOf(net[Len(net)])["data"]["attachments"][2]["id"] = 1

\* C6: get_original never raises; it returns null whenever the fetch or the
\* processing of its result failed, and a message only when the fetch
\* succeeded.
C6_GetOriginalNeverRaises ==
    (op = "get_original" /\ pc = "done") =>
        /\ result.kind = "return"
        /\ result.tag \in {"null", "message"}
        /\ (\E i \in DOMAIN resp : resp[i].outcome # "ok") => result.tag = "null"
        /\ result.tag = "message" => (resp = <<Resolved(200)>> /\ result.val = Some(stored))

\* C6 happens: the fetch was rejected and the call returned null
C6_Witness ==
    /\ op = "get_original" /\ pc = "done"
    /\ resp = <<Rejected>>
    /\ result.kind = "return" /\ result.tag = "null"

\* the reply of the scenario: input is exactly { ephemeral: true, content: c }
ScenarioReply ==
    /\ op = "reply"
    /\ DOMAIN input0 = {"ephemeral", "content"}
    /\ input0["ephemeral"] = TRUE

\* C7 as claimed: reply without attachments, input { ephemeral: true,
\* content: c }: the body posted is exactly { type: 4, data: { content: c,
\* flags: 64 } }, data having these two keys only, and the call returns true
\* when the answer is 204.
C7_ReplyBodyTwoKeys ==
    ScenarioReply =>
        /\ \A i \in DOMAIN net :
              net[i].body = [type |-> 4,
                             data |-> [content |-> input0["content"], flags |-> 64]]
        /\ (pc = "done" /\ resp = <<Resolved(204)>>) => result = Return("true", Undef)

\* C7 as amended: data is the caller's input object with flags set, that is
\* { ephemeral: true, content: c, flags: 64 }; the request is one POST to the
\* callback path, and the call returns true when the answer is 204.
C7_ReplyBodyIsInput ==
    ScenarioReply =>
        /\ \A i \in DOMAIN net :
              /\ net[i].kind = "json" /\ net[i].method = "post"
              /\ net[i].path = CallbackPath
              /\ net[i].body = [type |-> 4,
                                data |-> [ephemeral |-> TRUE,
                                          content |-> input0["content"],
                                          flags |-> 64]]
        /\ pc # "idle" => Len(net) = 1
        /\ (pc = "done" /\ resp = <<Resolved(204)>>) => result = Return("true", Undef)

\* C7 happens: the scenario's reply was posted, answered 204, and returned true
C7_Witness ==
    /\ ScenarioReply /\ input0["content"] = "hi"
    /\ pc = "done" /\ Len(net) = 1
    /\ resp = <<Resolved(204)>>
    /\ result = Return("true", Undef)

IconOnly(e, sub, text) ==
    Truthy(Chain(Get(e, sub), "icon_url")) /\ ~Truthy(Chain(Get(e, sub), text))

\* e is the caller's embed e0 in which an icon-only footer has got the
\* placeholder text and an icon-only author the placeholder name, and which
\* is otherwise unchanged
PlaceholderApplied(e0, e) ==
    /\ IconOnly(e0, "footer", "text") => Chain(Get(e, "footer"), "text") = Some(ZWSP)
    /\ IconOnly(e0, "author", "name") => Chain(Get(e, "author"), "name") = Some(ZWSP)
    /\ \A l \in Leaves :
          ~ \/ (l = "footer.text" /\ IconOnly(e0, "footer", "text"))
            \/ (l = "author.name" /\ IconOnly(e0, "author", "name"))
          => LeafValue(e, l) = LeafValue(e0, l)

\* the embeds of sent are the caller's embeds, each with the placeholders
EmbedsWithPlaceholders(sent) ==
    /\ Get(sent, "embeds") # Undef
    /\ Len(sent["embeds"]) = Len(input0["embeds"])
    /\ \A j \in DOMAIN input0["embeds"] :
          PlaceholderApplied(input0["embeds"][j], sent["embeds"][j])

\* C8: in reply and followup.create, on the JSON path and on the multipart
\* path, every embed with footer.icon_url and no footer.text is sent with
\* footer.text = U+200B, every embed with author.icon_url and no author.name
\* with author.name = U+200B, and the other embeds are sent unchanged.
C8_PlaceholderOnEveryCreate ==
    (op \in CreateOps /\ Get(input0, "embeds") # Undef /\ Len(input0["embeds"]) > 0) =>
        \A i \in Sends : EmbedsWithPlaceholders(SentMessage(net[i]))

\* field k of sent: the caller's value if the caller supplied it, else dflt
SuppliedOrDefault(sent, k, dflt) ==
    Get(sent, k) = IF Get(input0, k) # Undef THEN Get(input0, k) ELSE Some(dflt)

\* every message field of sent has the caller's value or its default
DefaultsFilled(sent) ==
    /\ SuppliedOrDefault(sent, "content", "")
    /\ IF Get(input0, "embeds") # Undef /\ Len(input0["embeds"]) > 0
       THEN EmbedsWithPlaceholders(sent)
       ELSE Get(sent, "embeds") = Some(<<>>)
    /\ SuppliedOrDefault(sent, "components", <<>>)
    /\ SuppliedOrDefault(sent, "attachments", <<>>)
    /\ SuppliedOrDefault(sent, "tts", FALSE)
    /\ SuppliedOrDefault(sent, "allowed_mentions", NullV)

\* C9 as claimed: in reply and followup.create without attachments, every
\* field the caller omitted is in the sent body with its default (content '',
\* embeds, components and attachments [], tts false, allowed_mentions null),
\* and every field the caller supplied with the caller's value.
C9_DefaultsOnEveryCreate ==
    op \in CreateOps => \A i \in JsonSends : DefaultsFilled(SentMessage(net[i]))

\* C9 as amended: that holds of followup.create (a supplied embeds being sent
\* with the placeholders of C8); reply sends the caller's input object as
\* data, so that a supplied field has the caller's value and an omitted field
\* is absent from data.
C9_DefaultsOnFollowupCreate ==
    \A i \in JsonSends :
        /\ op = "followup_create" => DefaultsFilled(SentMessage(net[i]))
        /\ op = "reply" =>
              \A k \in {"content", "embeds", "components", "attachments", "tts",
                        "allowed_mentions"} :
                  Get(SentMessage(net[i]), k) = Get(input0, k)

\* C9 happens: followup.create was called with tts and components only, and
\* the body sent has them and the defaults of the rest
C9_Witness ==
    /\ op = "followup_create" /\ JsonSends # {}
    /\ DOMAIN input0 = {"tts", "components"}
    /\ input0["components"] = <<"c_row">>
    /\ net[1].body["components"] = <<"c_row">>
    /\ net[1].body["content"] = ""
    /\ net[1].body["embeds"] = <<>>
    /\ net[1].body["allowed_mentions"] = NullV

\* C10: in an edit without attachments the PATCH body's components is empty
\* when the caller passed an explicit empty components, and in every other
\* case is the fetched message's components (empty if it has none); a
\* non-empty components of the caller never appears in the body.
C10_ComponentsKeptFromExisting ==
    op \in EditOps =>
        \A i \in JsonPatches :
            /\ net[i].body["components"]
                 = IF Get(input0, "components") = Some(<<>>) THEN <<>>
                   ELSE IF Get(message[1], "components") # Undef
                        THEN message[1]["components"]
                        ELSE <<>>
            /\ (Get(input0, "components") # Undef /\ Len(input0["components"]) > 0)
                  => net[i].body["components"] # input0["components"]

\* C10 happens: the caller passed a non-empty components and the PATCH went
\* out with the existing message's components
C10_Witness ==
    /\ op \in EditOps /\ JsonPatches # {}
    /\ Get(input0, "components") = Some(<<"c_row">>)
    /\ net[Len(net)].body["components"] = <<"x_row">>

\* input.attachments, as the caller passed it, is a non-empty sequence
AttachmentsGiven ==
    "attachments" \in DOMAIN input0 /\ Len(input0["attachments"]) >= 1

\* C11: in reply, component_update, edit_original, followup.create and
\* followup.edit the attachment dispatcher (and its multipart request) is
\* used if and only if input.attachments is a non-empty sequence; otherwise
\* the JSON transport is used; no call uses both.
C11_MultipartIffAttachments ==
    op \in NormalizerOps =>
        /\ AttachmentsGiven =>
              /\ \A i \in DOMAIN net : net[i].kind # "json"
              /\ pc # "idle" => sa.sender \in {"data", "body"}
        /\ ~AttachmentsGiven =>
              /\ \A i \in DOMAIN net : net[i].kind = "json"
              /\ sa = NoCall
              /\ pc # "idle" => Len(net) >= 1

\* C11 happens: a call with attachments has finished after its multipart
\* request, with no JSON request made
C11_Witness ==
    /\ op \in NormalizerOps /\ AttachmentsGiven
    /\ pc = "done" /\ MultipartSends # {}
    /\ \A i \in DOMAIN net : net[i].kind # "json"

\* the object without its attachments and flags
Rest(o) == Without(Without(o, "attachments"), "flags")

\* C12: the payload_json part is { type, data: params } with the rewritten
\* attachments metadata in data when the mode is 'data' (reply with type 4,
\* component_update with type 7), and { data: params without attachments }
\* with no type key in any other mode (edit_original, followup.create,
\* followup.edit).
C12_PayloadJsonByMode ==
    \A k \in MultipartSends :
        LET p == PayloadOf(net[k])
        IN /\ Rest(p["data"]) = Rest(input0)
           /\ op \in {"reply", "component_update"} =>
                 /\ DOMAIN p = {"type", "data"}
                 /\ p["type"] = IF op = "reply" THEN 4 ELSE 7
                 /\ "attachments" \in DOMAIN p["data"]
                 /\ Len(p["data"]["attachments"]) = Len(input0["attachments"])
                 /\ \A i \in DOMAIN p["data"]["attachments"] :
                       DOMAIN p["data"]["attachments"][i] = {"id", "filename", "description"}
           /\ op \in {"edit_original", "followup_create", "followup_edit"} =>
                 /\ DOMAIN p = {"data"}
                 /\ "attachments" \notin DOMAIN p["data"]

\* C12 happens: followup.edit with an attachment and ephemeral sent its
\* multipart PATCH, whose payload_json has data only
C12_Witness ==
    /\ op = "followup_edit" /\ MultipartSends # {}
    /\ Get(input0, "ephemeral") = Some(TRUE)
    /\ DOMAIN PayloadOf(net[Len(net)]) = {"data"}
    /\ PayloadOf(net[Len(net)])["data"]["flags"] = 64

CallbackOps ==
    {"reply", "defer", "component_defer", "component_update", "autocomplete_reply",
     "modal_reply", "upgrade"}

\* the call has finished and its last request, the callback POST, was
\* answered with a status
CallbackAnswered ==
    /\ op \in CallbackOps /\ pc = "done"
    /\ Len(resp) = Len(net) /\ Len(resp) >= 1
    /\ resp[Len(resp)].outcome = "ok"
    /\ net[Len(net)].path = CallbackPath

Gets == {i \in DOMAIN net : net[i].kind = "json" /\ net[i].method = "get"}
Patches == {i \in DOMAIN net : net[i].method = "patch"}

\* the GET of the stored message was issued and it failed
GetFailed == Gets # {} /\ Len(resp) >= 1 /\ resp[1] = Rejected

\* C14: when the GET of the existing message fails in edit_original without
\* attachments, the call returns null instead of raising, and no PATCH is
\* issued.
C14_NullWhenGetFails ==
    (op = "edit_original" /\ ~AttachmentsGiven /\ GetFailed) =>
        /\ Patches = {}
        /\ Len(net) = 1
        /\ pc = "done"
        /\ result = Return("null", Undef)

\* C14 happens: edit_original's GET was rejected and the call is over
C14_Witness ==
    /\ op = "edit_original" /\ ~AttachmentsGiven
    /\ net = <<JsonReq("get", OriginalPath, EmptyObj)>>
    /\ resp = <<Rejected>>
    /\ result = Return("null", Undef)

\* C15 as claimed: in every edit-style operation, with or without
\* attachments, a PATCH is issued only after a GET was issued and answered
\* successfully; when the GET fails, the operation fails with the error and
\* no PATCH is issued.
C15_PatchOnlyAfterGet ==
    op \in EditOps =>
        /\ \A i \in Patches :
              \E j \in Gets : j < i /\ j <= Len(resp) /\ resp[j].outcome = "ok"
        /\ GetFailed => Patches = {} /\ result = Throw("transport", "")

\* C15 as amended: without attachments the PATCH is the second request,
\* issued after the GET was answered successfully, and a failed GET leaves
\* no PATCH: followup.edit then fails with the GET's error, edit_original
\* returns null.  With attachments the multipart PATCH is issued without any
\* GET.
C15_PatchAfterGetUnlessAttachments ==
    op \in EditOps =>
        /\ ~AttachmentsGiven =>
              /\ \A i \in Patches :
                    /\ i = 2 /\ 1 \in Gets
                    /\ resp[1].outcome = "ok"
              /\ GetFailed =>
                    /\ Patches = {}
                    /\ result = IF op = "followup_edit" THEN Throw("transport", "")
                                ELSE Return("null", Undef)
        /\ AttachmentsGiven =>
              /\ Gets = {}
              /\ \A i \in Patches : net[i].kind = "multipart"

\* C15 happens: followup.edit's GET was rejected, the call raised and issued
\* no PATCH
C15_Witness ==
    /\ op = "followup_edit" /\ ~AttachmentsGiven
    /\ GetFailed /\ pc = "done"
    /\ Len(net) = 1
    /\ result = Throw("transport", "")

\* a request of the call was rejected, or the call raised
ErrorOccurred ==
    \/ \E i \in DOMAIN resp : resp[i].outcome # "ok"
    \/ (result # Undef /\ result.kind = "throw")

\* C16 as claimed: in every public operation an error reaches the caller as
\* the same error value, unmodified; only get_original swallows errors.
C16_ErrorsUnmodified ==
    (pc = "done" /\ ErrorOccurred) =>
        IF op = "get_original" THEN result = Return("null", Undef)
        ELSE result.kind = "throw" /\ result.via = ""

\* C16 as amended: an error of a call without attachments reaches the caller
\* unmodified; an error raised inside the attachment dispatcher reaches the
\* caller as what the error-normalization routine makes of it; get_original
\* swallows every error and edit_original without attachments swallows the
\* failure of its GET, both returning null.
C16_ErrorsByPath ==
    (pc = "done" /\ ErrorOccurred) =>
        IF op = "get_original" \/ (op = "edit_original" /\ ~AttachmentsGiven /\ GetFailed)
        THEN result = Return("null", Undef)
        ELSE /\ result.kind = "throw"
             /\ result.via = IF sa = NoCall THEN "" ELSE "getAxiosError"
             /\ sa # NoCall <=> (op \in NormalizerOps /\ AttachmentsGiven)

\* C16 happens: the multipart request of a followup.create was rejected and
\* the error went through the normalization routine
C16_Witness ==
    /\ op = "followup_create" /\ pc = "done"
    /\ MultipartSends # {}
    /\ resp[Len(resp)] = Rejected
    /\ result = Throw("transport", "getAxiosError")

\* somebody else changed the stored message after the call's GET was
\* answered and before its PATCH was
ExternalChangeBetween ==
    op \in EditOps /\ \E i \in DOMAIN ext : ext[i].at \in {"eo_patch", "fe_patch"}

\* the optional value the message has for field k, or the empty sequence
OrEmpty(msg, k) == IF Get(msg, k) # Undef THEN msg[k] ELSE <<>>

\* C17: when the stored message is changed by somebody else after the GET of
\* an edit and before its PATCH, the call issues no second GET and fails only
\* if the PATCH itself is rejected; the PATCH body carries, for content, each
\* embed sub-field, components and attachments the caller did not supply,
\* the value the GET read (the empty sequence where it read none), and once
\* the PATCH is applied the stored message holds those values again.
C17_StaleValuesOverwriteExternalChange ==
    ExternalChangeBetween =>
        LET body == net[2].body
            read == message[1]
            applied == pc = "done" /\ resp[2].outcome = "ok"
        IN /\ Len(net) = 2 /\ Gets = {1} /\ Patches = {2}
           /\ (pc = "done" /\ result.kind = "throw") => resp[2] = Rejected
           /\ Get(input0, "content") = Undef =>
                 /\ Get(body, "content") = Get(read, "content")
                 /\ applied => Get(stored, "content") = Get(read, "content")
           /\ Get(input0, "embeds") # Some(<<>>) =>
                 \A l \in Leaves :
                    LeafOpt(Idx0(Get(input0, "embeds")), l) = Undef =>
                       /\ LeafValue(body["embeds"][1], l)
                            = LeafOpt(Idx0(Get(read, "embeds")), l)
                       /\ applied => LeafValue(stored["embeds"][1], l)
                                       = LeafOpt(Idx0(Get(read, "embeds")), l)
           /\ Get(input0, "components") = Undef =>
                 /\ body["components"] = OrEmpty(read, "components")
                 /\ applied => stored["components"] = OrEmpty(read, "components")
           /\ Get(input0, "attachments") = Undef =>
                 /\ body["attachments"] = OrEmpty(read, "attachments")
                 /\ applied => stored["attachments"] = OrEmpty(read, "attachments")

\* C17 happens: the content was changed by somebody else while
\* edit_original's PATCH was under way, and the PATCH put back the content
\* the GET had read
C17_Witness ==
    /\ op = "edit_original" /\ ExternalChangeBetween
    /\ Get(input0, "content") = Undef
    /\ ext = <<[at |-> "eo_patch", to |-> ExternalMessage]>>
    /\ pc = "done" /\ resp = <<Resolved(200), Resolved(200)>>
    /\ message[1]["content"] = "old"
    /\ stored["content"] = "old"
    /\ stored["components"] # ExternalMessage["components"]

\* an earlier call with this input object issued its multipart request, and
\* so had rewritten input.attachments
DispatchedBefore ==
    \E k \in DOMAIN past : \E i \in DOMAIN past[k].net : past[k].net[i].kind = "multipart"

\* C18: a call made with an input object that an earlier call has taken as
\* far as the rewrite of its attachments issues no network request and fails
\* with the missing-property validation error, whether the earlier call's
\* multipart request succeeded or failed.
C18_SecondDispatchFailsValidation ==
    (op \in NormalizerOps /\ DispatchedBefore) =>
        /\ net = <<>>
        /\ pc \in {"idle", "sa_loop", "done"}
        /\ pc = "done" => result = Throw("validation_missing", "getAxiosError")

\* C18 happens: the first reply with attachments returned true, the second
\* one with the same input object raised the validation error with no request
C18_Witness ==
    /\ op = "reply" /\ Len(past) = 1
    /\ past[1].result = Return("true", Undef)
    /\ pc = "done" /\ net = <<>>
    /\ result = Throw("validation_missing", "getAxiosError")

\* C18 happens as well after a first call whose multipart request was rejected
C18_WitnessAfterFailure ==
    /\ op = "followup_edit" /\ Len(past) = 1
    /\ past[1].result = Throw("transport", "getAxiosError")
    /\ DispatchedBefore
    /\ pc = "done" /\ net = <<>>
    /\ result = Throw("validation_missing", "getAxiosError")

====
